---- MODULE Spec2Model ----
(***************************************************************************)
(* Model of the Foxsight license client (src/license_client.py, driven by  *)
(* the endpoints of src/main.py over the tables of src/database.py).       *)
(*                                                                         *)
(* Time is counted in hours.  Every endpoint call is one action: it runs   *)
(* the whole handler, all commits included, at the instant `now`.          *)
(* The opaque columns license_signature, validation_error and hardware_id  *)
(* carry no decision of the engine and are left out.                       *)
(***************************************************************************)
EXTENDS Integers, Sequences, FiniteSets, TLC

\* ------------------------------------------------------------------ bounds
MaxTicks == 2
MaxAttempts == 2

\* ------------------------------------------------------- program constants
\* settings.OFFLINE_GRACE_PERIOD_HOURS
OFFLINE_GRACE_PERIOD_HOURS == 72
\* timedelta(days=30) of _store_license_cache; a day is 24 hours
ValidDays == 30
ALLOW_UNLICENSED_CORE_FEATURES == TRUE

\* A nullable DateTime column holding NULL.
NoTime == -1

\* License keys the caller may submit and the authority may return.
Keys == {"K1", "K2"}

\* Feature keys: one of the core allow-list, one optional module.
Features == {"module.live_view", "module.x"}

core_features == {"module.camera_management", "module.live_view",
                  "module.recording_basic", "module.playback",
                  "module.user_management"}

\* The expiresAt the authority may put into the license payload, in hours:
\* one before and one after the first local ceiling.
AuthorityExpiry == {240, 8760}

\* How far the clock may jump between two calls.
TickSteps == {OFFLINE_GRACE_PERIOD_HOURS \div 2, ValidDays * 24}

VARIABLES
    now,         \* datetime.utcnow(), in hours
    ticks,       \* how many times the clock has advanced
    cache,       \* table local_license_cache: license_key -> row
    flags,       \* table local_feature_flags: feature_key -> row
    attempts,    \* table local_license_validation_attempts, in insertion order
    schedulers,  \* number of running AsyncIOScheduler objects (one job each)
    last,        \* the last call: [op, key, r (the authority's answer, "" when
                 \* no request was sent), res (what the caller got)]
    terminal,    \* history: validate_license has returned grace_period_expired
                 \* and no activation has succeeded since
    inflight     \* the requests under way, for the specifications in which
                 \* a handler is more than one step: request -> its position
                 \* and what its database session has loaded

vars == <<now, ticks, cache, flags, attempts, schedulers, last, terminal,
          inflight>>

\* ------------------------------------------------------------ the tables

\* A row of local_license_cache as _store_license_cache inserts it at time t.
NewLicenseRow(license_data, vu, t) ==
    [license_data |-> license_data,
     cached_at |-> t,
     valid_until |-> vu,
     last_validated_at |-> NoTime,
     is_valid |-> TRUE,
     in_grace_period |-> FALSE,
     grace_period_started_at |-> NoTime,
     grace_period_expires_at |-> NoTime]

\* A row of local_feature_flags as _sync_feature_flags inserts it.
NewFeatureFlag(t) ==
    [enabled |-> TRUE, licensed |-> TRUE, system_enabled |-> TRUE, synced_at |-> t]

\* A row of local_license_validation_attempts.
LogEntry(license_key, result, has_error) ==
    [license_key |-> license_key, result |-> result, has_error |-> has_error]

\* _get_cached_license: query(LocalLicenseCache).first() carries no ORDER BY,
\* so any row of the table may be the one returned.
GetCachedLicense(c) == DOMAIN c

\* ------------------------------------------------- _store_license_cache

\* Faulty variant: the local ceiling taken from the authority's expiry.
LocalValidity_FromAuthority(license_data, t) == license_data.expiresAt

\* valid_until = datetime.utcnow() + timedelta(days=30); the payload is kept
\* in license_data and never read for it.
LocalValidity(license_data, t) == t + ValidDays * 24

\* Upsert keyed by the licenseKey the authority returned; commits.
StoreLicenseCache(c, rk, license_data, t) ==
    IF rk \in DOMAIN c
    THEN [c EXCEPT ![rk] = [@ EXCEPT !.license_data = license_data,
                                     !.cached_at = t,
                                     !.valid_until = LocalValidity(license_data, t),
                                     !.is_valid = TRUE]]
    ELSE (rk :> NewLicenseRow(license_data, LocalValidity(license_data, t), t)) @@ c

\* ------------------------------------------------- _sync_feature_flags

\* query(LocalFeatureFlag).update({"licensed": False})
ResetLicensed(f) == [k \in DOMAIN f |-> [f[k] EXCEPT !.licensed = FALSE]]

\* Faulty variant: the loop without the reset before it.
SyncFeatureFlags_NoReset(f, E, t) ==
    [k \in (DOMAIN f) \cup E |->
        IF k \in E
        THEN IF k \in DOMAIN f
             THEN [f[k] EXCEPT !.licensed = TRUE, !.synced_at = t]
             ELSE NewFeatureFlag(t)
        ELSE f[k]]

\* The loop over enabledFeatures after the reset, then the commit.
SyncFeatureFlags(f, E, t) ==
    [k \in (DOMAIN f) \cup E |->
        IF k \in E
        THEN IF k \in DOMAIN f
             THEN [ResetLicensed(f)[k] EXCEPT !.licensed = TRUE, !.synced_at = t]
             ELSE NewFeatureFlag(t)
        ELSE ResetLicensed(f)[k]]

\* ------------------------------------------------- _update_license_cache

\* Faulty variant: the grace flag survives a successful validation.
UpdateLicenseCache_KeepGrace(row, isValid, t) ==
    [row EXCEPT !.last_validated_at = t, !.is_valid = isValid]

\* is_valid is the isValid of the response, which is true on this path.
UpdateLicenseCache(row, isValid, t) ==
    [row EXCEPT !.last_validated_at = t,
                !.is_valid = isValid,
                !.in_grace_period = FALSE]

\* ------------------------------------------------- results

\* The dict validate_license returns, absent keys as the defaults of
\* LicenseValidationResponse (inGracePeriod False, the others None).
ValidationResult(valid, reason, inGracePeriod, validUntil, gracePeriodExpires) ==
    [valid |-> valid, reason |-> reason, inGracePeriod |-> inGracePeriod,
     validUntil |-> validUntil, gracePeriodExpires |-> gracePeriodExpires]

\* The dict activate_license returns; error "" stands for no error key.
ActivationResult(success, error) == [success |-> success, error |-> error]

\* ------------------------------------------------- _check_grace_period

\* Faulty variant: the flag and the start are written, the expiry is not.
StartGracePeriod_NoExpiry(row, t) ==
    [row EXCEPT !.in_grace_period = TRUE,
                !.grace_period_started_at = t]

\* Step 2 of the policy: the grace window opened at t.
StartGracePeriod(row, t) ==
    [row EXCEPT !.in_grace_period = TRUE,
                !.grace_period_started_at = t,
                !.grace_period_expires_at = t + OFFLINE_GRACE_PERIOD_HOURS]

\* Faulty variant: every failed check past the ceiling restarts the clock.
CheckGracePeriod_Restart(row, t) ==
    IF row.valid_until # NoTime /\ row.valid_until > t
    THEN [row |-> row,
          res |-> ValidationResult(TRUE, "", TRUE, row.valid_until, NoTime)]
    ELSE [row |-> StartGracePeriod(row, t),
          res |-> ValidationResult(TRUE, "", TRUE, NoTime,
                                   t + OFFLINE_GRACE_PERIOD_HOURS)]

\* Faulty variant: the locally trusted window is not looked at first.
CheckGracePeriod_NoShortCircuit(row, t) ==
    IF ~row.in_grace_period
    THEN [row |-> StartGracePeriod(row, t),
          res |-> ValidationResult(TRUE, "", TRUE, NoTime,
                                   t + OFFLINE_GRACE_PERIOD_HOURS)]
    ELSE IF row.grace_period_expires_at # NoTime /\ row.grace_period_expires_at > t
    THEN [row |-> row,
          res |-> ValidationResult(TRUE, "", TRUE, NoTime,
                                   row.grace_period_expires_at)]
    ELSE [row |-> row,
          res |-> ValidationResult(FALSE, "grace_period_expired", FALSE,
                                   NoTime, NoTime)]

\* Faulty variant: a started grace period is never compared with the clock.
CheckGracePeriod_NeverExpires(row, t) ==
    IF row.valid_until # NoTime /\ row.valid_until > t
    THEN [row |-> row,
          res |-> ValidationResult(TRUE, "", TRUE, row.valid_until, NoTime)]
    ELSE IF ~row.in_grace_period
    THEN [row |-> StartGracePeriod(row, t),
          res |-> ValidationResult(TRUE, "", TRUE, NoTime,
                                   t + OFFLINE_GRACE_PERIOD_HOURS)]
    ELSE [row |-> row,
          res |-> ValidationResult(TRUE, "", TRUE, NoTime,
                                   row.grace_period_expires_at)]

\* The row after the check and the result returned.
CheckGracePeriod(row, t) ==
    IF row.valid_until # NoTime /\ row.valid_until > t
    THEN [row |-> row,
          res |-> ValidationResult(TRUE, "", TRUE, row.valid_until, NoTime)]
    ELSE IF ~row.in_grace_period
    THEN [row |-> StartGracePeriod(row, t),
          res |-> ValidationResult(TRUE, "", TRUE, NoTime,
                                   t + OFFLINE_GRACE_PERIOD_HOURS)]
    ELSE IF row.grace_period_expires_at # NoTime /\ row.grace_period_expires_at > t
    THEN [row |-> row,
          res |-> ValidationResult(TRUE, "", TRUE, NoTime,
                                   row.grace_period_expires_at)]
    ELSE [row |-> row,
          res |-> ValidationResult(FALSE, "grace_period_expired", FALSE,
                                   NoTime, NoTime)]

\* ------------------------------------------------- the licensing authority

\* What POST /licenses/activate can come to: a success body carrying the
\* licenseKey (the key that was sent: the authority activates the key it is
\* asked about) and the enabledFeatures (sync tells how _sync_feature_flags
\* then fares: "ok", "iterate" when enabledFeatures is no list and the loop
\* raises after the reset, "commit" when its own commit raises and rolls
\* back), a body with success false, an httpx.HTTPError (transport error,
\* timeout, error status), or another exception (a body that is no JSON).
ActivateResponses ==
    [kind : {"success"}, expiresAt : AuthorityExpiry,
     enabledFeatures : SUBSET Features, sync : {"ok", "iterate", "commit"}]
    \cup [kind : {"rejected", "http_error", "exception"}]

\* What POST /licenses/validate can come to: success with isValid, a body
\* that reports the license invalid, an httpx.HTTPError that is a transport
\* error or timeout ("http_error") or the HTTPStatusError raise_for_status
\* makes of a 4xx/5xx answer ("error_status"), another exception.
ValidateResponses == {"valid", "invalid", "http_error", "error_status", "exception"}

\* What POST /licenses/heartbeat can come to: a 2xx acknowledgement, an
\* error status (never inspected: no raise_for_status), or an exception.
HeartbeatResponses == {"ack", "error_status", "unreachable"}

\* ------------------------------------------------- activate_license

\* Each outcome: the tables after the call, the attempts it logs, whether
\* _start_heartbeat ran, and the dict returned.
ActivateSuccess(c, f, license_key, r, t) ==
    IF r.sync = "ok"
    THEN [cache |-> StoreLicenseCache(c, license_key, [expiresAt |-> r.expiresAt], t),
          flags |-> SyncFeatureFlags(f, r.enabledFeatures, t),
          log |-> <<LogEntry(license_key, "success", FALSE)>>,
          start |-> TRUE,
          res |-> ActivationResult(TRUE, "")]
    ELSE [cache |-> StoreLicenseCache(c, license_key, [expiresAt |-> r.expiresAt], t),
          flags |-> IF r.sync = "iterate" THEN ResetLicensed(f) ELSE f,
          log |-> <<LogEntry(license_key, "failed", TRUE)>>,
          start |-> FALSE,
          res |-> ActivationResult(FALSE, "Activation failed: exception")]

\* Faulty variant: the cache is written before success is looked at.
ActivateRejected_StoresFirst(c, f, license_key, r, t) ==
    [cache |-> StoreLicenseCache(c, license_key, [expiresAt |-> NoTime], t),
     flags |-> f,
     log |-> <<>>, start |-> FALSE,
     res |-> ActivationResult(FALSE, "Activation failed")]

\* data.get("success") is false: the else branch, which logs nothing.
ActivateRejected(c, f, license_key, r, t) ==
    [cache |-> c, flags |-> f, log |-> <<>>, start |-> FALSE,
     res |-> ActivationResult(FALSE, "Activation failed")]

\* except httpx.HTTPError / except Exception before any table was touched.
ActivateRaised(c, f, license_key, r, t) ==
    [cache |-> c, flags |-> f,
     log |-> <<LogEntry(license_key, "failed", TRUE)>>,
     start |-> FALSE,
     res |-> ActivationResult(FALSE,
                IF r.kind = "http_error" THEN "HTTP error during activation"
                ELSE "Activation failed: exception")]

ActivateLicense(c, f, license_key, r, t) ==
    CASE r.kind = "success" -> ActivateSuccess(c, f, license_key, r, t)
      [] r.kind = "rejected" -> ActivateRejected(c, f, license_key, r, t)
      [] OTHER -> ActivateRaised(c, f, license_key, r, t)

\* ------------------------------------------------- validate_license

\* The call with cached row k: the row after it, the attempts logged and
\* the dict returned.
ValidateLicense(row, k, r, t) ==
    IF r = "valid"
    THEN [row |-> UpdateLicenseCache(row, TRUE, t),
          log |-> <<LogEntry(k, "success", FALSE)>>,
          res |-> ValidationResult(TRUE, "", FALSE, NoTime, NoTime)]
    ELSE [row |-> CheckGracePeriod(row, t).row,
          log |-> IF r \in {"http_error", "error_status"}
                  THEN <<LogEntry(k, "offline", TRUE)>>
                  ELSE IF r = "exception" THEN <<LogEntry(k, "failed", TRUE)>>
                  ELSE <<>>,
          res |-> CheckGracePeriod(row, t).res]

NoLicense == ValidationResult(FALSE, "no_license", FALSE, NoTime, NoTime)

\* ------------------------------------------------- get_license_status

\* The dict returned once validate_license has run on the row.
StatusSnapshot(row, k, v) ==
    IF v.valid
    THEN [hasLicense |-> TRUE, status |-> "active", licenseKey |-> k,
          expiresAt |-> row.license_data.expiresAt,
          inGracePeriod |-> v.inGracePeriod,
          gracePeriodExpires |-> v.gracePeriodExpires,
          lastValidated |-> row.last_validated_at, reason |-> ""]
    ELSE [hasLicense |-> TRUE, status |-> "invalid", licenseKey |-> k,
          expiresAt |-> NoTime,
          inGracePeriod |-> FALSE, gracePeriodExpires |-> NoTime,
          lastValidated |-> NoTime, reason |-> v.reason]

NoLicenseStatus ==
    [hasLicense |-> FALSE, status |-> "no_license", licenseKey |-> "",
     expiresAt |-> NoTime,
     inGracePeriod |-> FALSE, gracePeriodExpires |-> NoTime,
     lastValidated |-> NoTime, reason |-> ""]

\* ------------------------------------------------- send_heartbeat

\* Faulty variant: a heartbeat that cannot be delivered closes the license.
HeartbeatRow_GatesLicense(row, r, t) ==
    IF r = "unreachable"
    THEN [row EXCEPT !.is_valid = FALSE]
    ELSE [row EXCEPT !.last_validated_at = t]

\* The row after the post: any response that raises nothing counts.
HeartbeatRow(row, r, t) ==
    IF r = "unreachable" THEN row ELSE [row EXCEPT !.last_validated_at = t]

\* send_heartbeat swallows every Exception and returns None; the endpoint
\* then answers success.
HeartbeatResponse == [success |-> TRUE, raised |-> FALSE]

\* ------------------------------------------------- is_feature_available

IsCoreFeature(feature_key) == feature_key \in core_features

\* Faulty variant: the administrator's switch is not looked at.
IsFeatureAvailable_LicensedOnly(f, feature_key) ==
    IF feature_key \notin DOMAIN f
    THEN ALLOW_UNLICENSED_CORE_FEATURES /\ IsCoreFeature(feature_key)
    ELSE f[feature_key].licensed

IsFeatureAvailable(f, feature_key) ==
    IF feature_key \notin DOMAIN f
    THEN ALLOW_UNLICENSED_CORE_FEATURES /\ IsCoreFeature(feature_key)
    ELSE f[feature_key].licensed /\ f[feature_key].system_enabled

\* ------------------------------------------------------------------ state

NoCall == [op |-> "none", key |-> "", r |-> "", res |-> <<>>]

\* The requests that can be under way at once: one activation and two
\* validations, each with its own LicenseClient and database session.
Validations == {"v1", "v2"}
Requests == {"a"} \cup Validations
Idle == [pc |-> "idle"]

Init ==
    /\ now = 0
    /\ ticks = 0
    /\ cache = <<>>
    /\ flags = <<>>
    /\ attempts = <<>>
    /\ schedulers = 0
    /\ last = NoCall
    /\ terminal = FALSE
    /\ inflight = [q \in Requests |-> Idle]

\* Time passes between two calls.
Tick(d) ==
    /\ ticks < MaxTicks
    /\ now' = now + d
    /\ ticks' = ticks + 1
    /\ last' = [op |-> "tick", key |-> "", r |-> "", res |-> <<>>]
    /\ UNCHANGED <<cache, flags, attempts, schedulers, terminal, inflight>>

\* POST /api/license/activate: a fresh LicenseClient, whose scheduler is not
\* running, so that _start_heartbeat starts one more scheduler.
Activate(license_key, r) ==
    LET o == ActivateLicense(cache, flags, license_key, r, now) IN
    /\ Len(attempts) + Len(o.log) <= MaxAttempts
    /\ cache' = o.cache
    /\ flags' = o.flags
    /\ attempts' = attempts \o o.log
    /\ schedulers' = IF o.start THEN schedulers + 1 ELSE schedulers
    /\ last' = [op |-> "activate", key |-> license_key, r |-> r, res |-> o.res]
    /\ terminal' = (terminal /\ ~o.res.success)
    /\ UNCHANGED <<now, ticks, inflight>>

\* Faulty variant: the authority is asked before the cache is looked at, and
\* the attempt is logged without a license.
Validate_AsksWithoutLicense(r) ==
    /\ IF GetCachedLicense(cache) = {}
       THEN /\ Len(attempts) < MaxAttempts
            /\ attempts' = Append(attempts, LogEntry("", "failed", TRUE))
            /\ last' = [op |-> "validate", key |-> "", r |-> r, res |-> NoLicense]
            /\ UNCHANGED <<cache, terminal>>
       ELSE \E k \in GetCachedLicense(cache) :
              LET o == ValidateLicense(cache[k], k, r, now) IN
              /\ Len(attempts) + Len(o.log) <= MaxAttempts
              /\ cache' = [cache EXCEPT ![k] = o.row]
              /\ attempts' = attempts \o o.log
              /\ last' = [op |-> "validate", key |-> k, r |-> r, res |-> o.res]
              /\ terminal' = (terminal \/ o.res.reason = "grace_period_expired")
    /\ UNCHANGED <<now, ticks, flags, schedulers, inflight>>

\* POST /api/license/validate.
Validate(r) ==
    /\ IF GetCachedLicense(cache) = {}
       THEN /\ last' = [op |-> "validate", key |-> "", r |-> "", res |-> NoLicense]
            /\ UNCHANGED <<cache, attempts, terminal>>
       ELSE \E k \in GetCachedLicense(cache) :
              LET o == ValidateLicense(cache[k], k, r, now) IN
              /\ Len(attempts) + Len(o.log) <= MaxAttempts
              /\ cache' = [cache EXCEPT ![k] = o.row]
              /\ attempts' = attempts \o o.log
              /\ last' = [op |-> "validate", key |-> k, r |-> r, res |-> o.res]
              /\ terminal' = (terminal \/ o.res.reason = "grace_period_expired")
    /\ UNCHANGED <<now, ticks, flags, schedulers, inflight>>

\* GET /api/license/status: validate_license, then the display shape.
GetStatus(r) ==
    /\ IF GetCachedLicense(cache) = {}
       THEN /\ last' = [op |-> "status", key |-> "", r |-> "", res |-> NoLicenseStatus]
            /\ UNCHANGED <<cache, attempts, terminal>>
       ELSE \E k \in GetCachedLicense(cache) :
              LET o == ValidateLicense(cache[k], k, r, now) IN
              /\ Len(attempts) + Len(o.log) <= MaxAttempts
              /\ cache' = [cache EXCEPT ![k] = o.row]
              /\ attempts' = attempts \o o.log
              /\ last' = [op |-> "status", key |-> k, r |-> r,
                          res |-> StatusSnapshot(o.row, k, o.res)]
              /\ terminal' = (terminal \/ o.res.reason = "grace_period_expired")
    /\ UNCHANGED <<now, ticks, flags, schedulers, inflight>>

\* POST /api/license/heartbeat, or the job of a running scheduler firing.
SendHeartbeat(r) ==
    /\ IF GetCachedLicense(cache) = {}
       THEN /\ last' = [op |-> "heartbeat", key |-> "", r |-> "",
                        res |-> HeartbeatResponse]
            /\ UNCHANGED cache
       ELSE \E k \in GetCachedLicense(cache) :
              /\ cache' = [cache EXCEPT ![k] = HeartbeatRow(cache[k], r, now)]
              /\ last' = [op |-> "heartbeat", key |-> k, r |-> r,
                          res |-> HeartbeatResponse]
    /\ UNCHANGED <<now, ticks, flags, attempts, schedulers, terminal, inflight>>

\* POST /api/license/feature/check.
CheckFeature(feature_key) ==
    /\ last' = [op |-> "feature", key |-> feature_key, r |-> "",
                res |-> [available |-> IsFeatureAvailable(flags, feature_key)]]
    /\ UNCHANGED <<now, ticks, cache, flags, attempts, schedulers, terminal,
                   inflight>>

\* The administrator's local override of a flag that exists.
AdminSetSystemEnabled(feature_key, b) ==
    /\ feature_key \in DOMAIN flags
    /\ flags' = [flags EXCEPT ![feature_key].system_enabled = b]
    /\ last' = [op |-> "admin", key |-> feature_key, r |-> "", res |-> <<>>]
    /\ UNCHANGED <<now, ticks, cache, attempts, schedulers, terminal, inflight>>

Next ==
    \/ \E d \in TickSteps : Tick(d)
    \/ \E license_key \in Keys, r \in ActivateResponses : Activate(license_key, r)
    \/ \E r \in ValidateResponses : Validate(r)
    \/ \E r \in ValidateResponses : GetStatus(r)
    \/ \E r \in HeartbeatResponses : SendHeartbeat(r)
    \/ \E feature_key \in Features : CheckFeature(feature_key)
    \/ \E feature_key \in Features, b \in BOOLEAN : AdminSetSystemEnabled(feature_key, b)

\* The whole service.
Spec == Init /\ [][Next]_vars

\* The two tables never read each other: local_feature_flags is written by
\* activation and the administrator and read by the feature check, and
\* local_license_cache by activation, validation and the heartbeat.  Each
\* family of properties is checked with the calls that touch its table.

\* An installation that keeps to one license key.
OneKey == {"K1"}

\* Activation, the feature registry and the clock.
NextActivation ==
    \/ \E d \in TickSteps : Tick(d)
    \/ \E license_key \in OneKey, r \in ActivateResponses : Activate(license_key, r)
    \/ \E feature_key \in Features : CheckFeature(feature_key)
    \/ \E feature_key \in Features, b \in BOOLEAN : AdminSetSystemEnabled(feature_key, b)

SpecActivation == Init /\ [][NextActivation]_vars

\* Activation answers that leave the feature registry as it is.
LicenseOnlyResponses ==
    {r \in ActivateResponses :
        r.kind = "success" =>
            (r.enabledFeatures = {} /\ r.sync = "ok" /\ r.expiresAt = 8760)}

\* The license record of that installation: activation, validation, status,
\* heartbeat and the clock.
NextValidation ==
    \/ \E d \in TickSteps : Tick(d)
    \/ \E license_key \in OneKey, r \in LicenseOnlyResponses : Activate(license_key, r)
    \/ \E r \in ValidateResponses : Validate(r)
    \/ \E r \in ValidateResponses : GetStatus(r)
    \/ \E r \in HeartbeatResponses : SendHeartbeat(r)

SpecValidation == Init /\ [][NextValidation]_vars

\* The same calls on an installation that is sent either key.
NextInstallation ==
    \/ \E d \in TickSteps : Tick(d)
    \/ \E license_key \in Keys, r \in LicenseOnlyResponses : Activate(license_key, r)
    \/ \E r \in ValidateResponses : Validate(r)
    \/ \E r \in ValidateResponses : GetStatus(r)
    \/ \E r \in HeartbeatResponses : SendHeartbeat(r)

SpecInstallation == Init /\ [][NextInstallation]_vars

\* Activation answers with an empty feature list, the ones whose feature
\* sync raises after the license was stored included.
EmptyFeatureResponses ==
    {r \in ActivateResponses :
        r.kind = "success" => (r.enabledFeatures = {} /\ r.expiresAt = 8760)}

\* Every call that reads or writes the license record, and the feature check.
NextLicenseRecord ==
    \/ \E d \in TickSteps : Tick(d)
    \/ \E license_key \in OneKey, r \in EmptyFeatureResponses : Activate(license_key, r)
    \/ \E r \in ValidateResponses : Validate(r)
    \/ \E r \in ValidateResponses : GetStatus(r)
    \/ \E r \in HeartbeatResponses : SendHeartbeat(r)
    \/ \E feature_key \in Features : CheckFeature(feature_key)

SpecLicenseRecord == Init /\ [][NextLicenseRecord]_vars

\* ------------------------------------------- the clock without a bound

\* The clock steps of the long-run runs: one whole grace window, one whole
\* trusted window.
ElapseSteps == {OFFLINE_GRACE_PERIOD_HOURS, ValidDays * 24}

\* Time passes for as long as a cached license has a deadline ahead of it:
\* its valid_until, or the expiry of its open grace window.  Once every
\* deadline is behind, more time changes no comparison _check_grace_period
\* makes, and is not counted.
Elapse(d) ==
    /\ \E k \in DOMAIN cache :
          \/ cache[k].valid_until > now
          \/ (cache[k].in_grace_period /\ cache[k].grace_period_expires_at > now)
    /\ now' = now + d
    /\ last' = [op |-> "tick", key |-> "", r |-> "", res |-> <<>>]
    /\ UNCHANGED <<ticks, cache, flags, attempts, schedulers, terminal, inflight>>

\* A validation the authority does not answer with valid.
FailingValidate == \E r \in ValidateResponses \ {"valid"} : Validate(r)

\* Activation and validation under a clock that keeps advancing and a caller
\* that keeps validating.
NextOffline ==
    \/ \E d \in ElapseSteps : Elapse(d)
    \/ \E license_key \in OneKey, r \in LicenseOnlyResponses : Activate(license_key, r)
    \/ \E r \in ValidateResponses : Validate(r)

SpecOffline ==
    /\ Init
    /\ [][NextOffline]_vars
    /\ WF_vars(\E d \in ElapseSteps : Elapse(d))
    /\ WF_vars(FailingValidate)

\* ------------------------------------------- handlers in several steps

\* A handler gives way to other requests where it awaits the authority, and
\* its writes reach the other database sessions commit by commit.

\* The commit of a session: the UPDATE sets the columns whose value differs
\* from the one the session had loaded and leaves the others to the table.
Flush(dbrow, loaded, obj) ==
    [col \in DOMAIN dbrow |->
        IF obj[col] # loaded[col] THEN obj[col] ELSE dbrow[col]]

\* activate_license from the success body to the commit that ends
\* _store_license_cache.
ActivateStore(license_key, r) ==
    /\ inflight["a"].pc = "idle"
    /\ r.kind = "success"
    /\ Len(attempts) < MaxAttempts
    /\ cache' = StoreLicenseCache(cache, license_key,
                                  [expiresAt |-> r.expiresAt], now)
    /\ inflight' = [inflight EXCEPT !["a"] =
                        [pc |-> "stored", key |-> license_key, r |-> r,
                         cache_before |-> cache, flags_before |-> flags]]
    /\ last' = [op |-> "activate_store", key |-> license_key, r |-> r,
                res |-> <<>>]
    /\ UNCHANGED <<now, ticks, flags, attempts, schedulers, terminal>>

\* _sync_feature_flags to its commit; when it raises instead, the commit of
\* the failed attempt in the except branch, after which the call returns.
ActivateSync ==
    LET a == inflight["a"] IN
    /\ a.pc = "stored"
    /\ IF a.r.sync = "ok"
       THEN /\ flags' = SyncFeatureFlags(flags, a.r.enabledFeatures, now)
            /\ inflight' = [inflight EXCEPT !["a"].pc = "synced"]
            /\ last' = [op |-> "activate_sync", key |-> a.key, r |-> a.r,
                        res |-> <<>>]
            /\ UNCHANGED attempts
       ELSE /\ flags' = IF a.r.sync = "iterate" THEN ResetLicensed(flags)
                        ELSE flags
            /\ attempts' = Append(attempts, LogEntry(a.key, "failed", TRUE))
            /\ inflight' = [inflight EXCEPT !["a"] = Idle]
            /\ last' = [op |-> "activate", key |-> a.key, r |-> a.r,
                        res |-> ActivationResult(FALSE,
                                    "Activation failed: exception")]
    /\ UNCHANGED <<now, ticks, cache, schedulers, terminal>>

\* _start_heartbeat and the commit of the success attempt; the call returns.
ActivateReturn ==
    LET a == inflight["a"] IN
    /\ a.pc = "synced"
    /\ attempts' = Append(attempts, LogEntry(a.key, "success", FALSE))
    /\ schedulers' = schedulers + 1
    /\ inflight' = [inflight EXCEPT !["a"] = Idle]
    /\ last' = [op |-> "activate", key |-> a.key, r |-> a.r,
                res |-> ActivationResult(TRUE, "")]
    /\ terminal' = FALSE
    /\ UNCHANGED <<now, ticks, cache, flags>>

\* An activation the authority accepts, met by feature checks between its
\* commits.
NextConcurrentActivate ==
    \/ \E d \in TickSteps : Tick(d)
    \/ \E license_key \in OneKey, r \in ActivateResponses :
          ActivateStore(license_key, r)
    \/ ActivateSync
    \/ ActivateReturn
    \/ \E feature_key \in Features : CheckFeature(feature_key)

SpecConcurrentActivate == Init /\ [][NextConcurrentActivate]_vars

\* validate_license to the await of client.post: the cached row is loaded
\* into the session of request q.
BeginValidate(q) ==
    /\ inflight[q].pc = "idle"
    /\ IF GetCachedLicense(cache) = {}
       THEN /\ last' = [op |-> "validate", key |-> "", r |-> "", res |-> NoLicense]
            /\ UNCHANGED inflight
       ELSE \E k \in GetCachedLicense(cache) :
              /\ inflight' = [inflight EXCEPT ![q] =
                                [pc |-> "posted", key |-> k, loaded |-> cache[k]]]
              /\ last' = [op |-> "validate_post", key |-> k, r |-> "",
                          res |-> <<>>]
    /\ UNCHANGED <<now, ticks, cache, flags, attempts, schedulers, terminal>>

\* What the session of a request holds of the row when the answer r is dealt
\* with: the except branches commit the attempt first, which expires the
\* loaded row so that it is read again; the other branches use it as loaded.
SessionRow(loaded, dbrow, r) ==
    IF r \in {"valid", "invalid"} THEN loaded ELSE dbrow

\* validate_license from the answer of the authority to its return; nothing
\* is awaited on the way.
FinishValidate(q, r) ==
    LET k == inflight[q].key
        loaded == SessionRow(inflight[q].loaded, cache[k], r)
        o == ValidateLicense(loaded, k, r, now)
    IN
    /\ inflight[q].pc = "posted"
    /\ Len(attempts) + Len(o.log) <= MaxAttempts
    /\ cache' = [cache EXCEPT ![k] = Flush(cache[k], loaded, o.row)]
    /\ attempts' = attempts \o o.log
    /\ inflight' = [inflight EXCEPT ![q] = Idle]
    /\ last' = [op |-> "validate", key |-> k, r |-> r, res |-> o.res]
    /\ terminal' = (terminal \/ o.res.reason = "grace_period_expired")
    /\ UNCHANGED <<now, ticks, flags, schedulers>>

\* Validations that overlap, on an installation that keeps to one key.
NextConcurrentValidate ==
    \/ \E d \in TickSteps : Tick(d)
    \/ \E license_key \in OneKey, r \in LicenseOnlyResponses : Activate(license_key, r)
    \/ \E q \in Validations : BeginValidate(q)
    \/ \E q \in Validations, r \in ValidateResponses : FinishValidate(q, r)

SpecConcurrentValidate == Init /\ [][NextConcurrentValidate]_vars

\* ------------------------------------------------------------ properties

\* A call of validate_license on row k whose authority check did not succeed.
FailedValidate(k) ==
    /\ last'.op = "validate"
    /\ last'.key = k
    /\ last'.r # "valid"

\* C1: in every reachable state at most one CachedLicense record exists.
C1_AtMostOneCachedLicense == Cardinality(DOMAIN cache) <= 1

\* C2: every Activate call is all-or-nothing: either the upsert of the
\* cached license and the whole reset-and-resync of the flags are applied
\* and success is returned, or neither table differs from before the call.
C2_ActivateAllOrNothing ==
    [][last'.op = "activate" =>
        \/ /\ last'.res.success
           /\ cache' = StoreLicenseCache(cache, last'.key,
                                         [expiresAt |-> last'.r.expiresAt], now)
           /\ \E E \in SUBSET Features : flags' = SyncFeatureFlags(flags, E, now)
        \/ /\ cache' = cache
           /\ flags' = flags]_vars

\* C3: an Activate that fails because the authority reports failure or the
\* transport fails returns failure with an error string and leaves the
\* cached license and every feature flag as they were.
C3_FailedActivateChangesNothing ==
    [][(last'.op = "activate" /\ last'.r.kind \in {"rejected", "http_error"}) =>
        /\ ~last'.res.success
        /\ last'.res.error # ""
        /\ cache' = cache
        /\ flags' = flags]_vars

\* C3 happens: a transport failure met a cached license and a licensed flag.
C3_Witness ==
    /\ last.op = "activate"
    /\ last.r.kind = "http_error"
    /\ cache # <<>>
    /\ \E k \in DOMAIN flags : flags[k].licensed

\* C4: after a successful Activate at time t the record of the returned key
\* has validUntil = t + 30 days, whatever expiry the authority sent, and the
\* call appended exactly one attempt, whose result is success.
C4_ActivateSetsLocalCeiling ==
    [][(last'.op = "activate" /\ last'.res.success) =>
        /\ last'.key \in DOMAIN cache'
        /\ cache'[last'.key].valid_until = now + ValidDays * 24
        /\ Len(attempts') = Len(attempts) + 1
        /\ SubSeq(attempts', 1, Len(attempts)) = attempts
        /\ attempts'[Len(attempts')].result = "success"]_vars

\* C4 happens: a key already cached was activated again at a later time,
\* with an authority expiry that lies before the local ceiling.
C4_Witness ==
    /\ last.op = "activate"
    /\ last.res.success
    /\ now > 0
    /\ last.r.expiresAt < now + ValidDays * 24
    /\ Len(attempts) = 2
    /\ attempts[1] = LogEntry(last.key, "success", FALSE)
    /\ cache[last.key].cached_at = now

\* C5: after a successful Activate listing enabledFeatures E, a flag is
\* licensed iff its key is in E, a key of E that had no flag has one with
\* systemEnabled true, no flag is removed and no systemEnabled of a flag
\* that existed has changed.
C5_SyncMatchesEnabledFeatures ==
    [][(last'.op = "activate" /\ last'.res.success) =>
        LET E == last'.r.enabledFeatures IN
        /\ DOMAIN flags' = (DOMAIN flags) \cup E
        /\ \A k \in DOMAIN flags' : flags'[k].licensed <=> k \in E
        /\ \A k \in E \ DOMAIN flags : flags'[k].system_enabled
        /\ \A k \in DOMAIN flags :
              flags'[k].system_enabled = flags[k].system_enabled]_vars

\* C5 happens: a licensed flag the administrator had switched off lost its
\* licence to an activation that created another flag.
C5_Witness ==
    /\ last.op = "activate"
    /\ last.res.success
    /\ last.r.enabledFeatures = {"module.x"}
    /\ DOMAIN flags = Features
    /\ ~flags["module.live_view"].licensed
    /\ ~flags["module.live_view"].system_enabled
    /\ flags["module.x"].licensed

\* C6: past validUntil and not in grace, a failing Validate at t opens the
\* grace window [t, t + OFFLINE_GRACE_PERIOD_HOURS] and returns valid; a
\* failing Validate inside an open window returns valid with the same
\* expiry and leaves the record as it is.
C6_GraceClockStartsOnce ==
    [][\A k \in DOMAIN cache :
        (FailedValidate(k) /\ cache[k].valid_until <= now) =>
            /\ ~cache[k].in_grace_period =>
                  /\ cache'[k].in_grace_period
                  /\ cache'[k].grace_period_started_at = now
                  /\ cache'[k].grace_period_expires_at =
                        now + OFFLINE_GRACE_PERIOD_HOURS
                  /\ last'.res.valid
                  /\ last'.res.gracePeriodExpires =
                        now + OFFLINE_GRACE_PERIOD_HOURS
            /\ (cache[k].in_grace_period /\ cache[k].grace_period_expires_at > now) =>
                  /\ last'.res.valid
                  /\ last'.res.gracePeriodExpires = cache[k].grace_period_expires_at
                  /\ cache' = cache]_vars

\* C6 happens: a second failing Validate inside the window opened earlier.
C6_Witness ==
    /\ last.op = "validate"
    /\ last.r # "valid"
    /\ last.key \in DOMAIN cache
    /\ cache[last.key].in_grace_period
    /\ cache[last.key].grace_period_started_at < now
    /\ cache[last.key].grace_period_expires_at > now
    /\ last.res.gracePeriodExpires = cache[last.key].grace_period_expires_at

\* C7: a failing Validate while validUntil > now returns valid, in grace
\* period, with the stored validUntil, and starts no grace clock.
C7_TrustedWindowShortCircuit ==
    [][\A k \in DOMAIN cache :
        (FailedValidate(k) /\ cache[k].valid_until > now) =>
            /\ last'.res.valid
            /\ last'.res.inGracePeriod
            /\ last'.res.validUntil = cache[k].valid_until
            /\ cache'[k].in_grace_period = cache[k].in_grace_period
            /\ cache'[k].grace_period_started_at = cache[k].grace_period_started_at
            /\ cache'[k].grace_period_expires_at = cache[k].grace_period_expires_at]_vars

\* C7 happens: the authority rejected a license inside its trusted window.
C7_Witness ==
    /\ last.op = "validate"
    /\ last.r = "invalid"
    /\ last.key \in DOMAIN cache
    /\ cache[last.key].valid_until > now
    /\ last.res.validUntil = cache[last.key].valid_until
    /\ ~cache[last.key].in_grace_period

\* C8 as stated: whenever gracePeriodExpiresAt is set and in the past and
\* validUntil is in the past, a failing Validate returns grace_period_expired.
C8_ExpiredWindowAlwaysRejects ==
    [][\A k \in DOMAIN cache :
        (/\ FailedValidate(k)
         /\ cache[k].grace_period_expires_at # NoTime
         /\ cache[k].grace_period_expires_at < now
         /\ cache[k].valid_until < now) =>
            /\ ~last'.res.valid
            /\ last'.res.reason = "grace_period_expired"]_vars

\* C8 amended: whenever the record is in grace period, gracePeriodExpiresAt
\* is set and in the past and validUntil is in the past, a failing Validate
\* returns grace_period_expired.
C8_ExpiredOpenWindowRejects ==
    [][\A k \in DOMAIN cache :
        (/\ FailedValidate(k)
         /\ cache[k].in_grace_period
         /\ cache[k].grace_period_expires_at # NoTime
         /\ cache[k].grace_period_expires_at < now
         /\ cache[k].valid_until < now) =>
            /\ ~last'.res.valid
            /\ last'.res.reason = "grace_period_expired"]_vars

\* C8 happens: a failing Validate found the open window run out.
C8_Witness ==
    /\ last.op = "validate"
    /\ last.r # "valid"
    /\ last.key \in DOMAIN cache
    /\ cache[last.key].in_grace_period
    /\ cache[last.key].grace_period_expires_at # NoTime
    /\ cache[last.key].grace_period_expires_at < now
    /\ cache[last.key].valid_until < now
    /\ last.res.reason = "grace_period_expired"

\* C9: once a Validate has returned grace_period_expired, every later
\* Validate returns valid false, whatever the authority answers, until an
\* Activate has succeeded.
C9_GraceExpiredIsTerminal ==
    [][(terminal /\ last'.op = "validate") => ~last'.res.valid]_vars

\* C10: when the authority reports the license valid, Validate stores
\* lastValidatedAt = now, isValid true and inGracePeriod false, appends one
\* success attempt and returns valid, not in grace period.
C10_ValidAnswerClearsGrace ==
    [][\A k \in DOMAIN cache :
        (last'.op = "validate" /\ last'.key = k /\ last'.r = "valid") =>
            /\ cache'[k].last_validated_at = now
            /\ cache'[k].is_valid
            /\ ~cache'[k].in_grace_period
            /\ Len(attempts') = Len(attempts) + 1
            /\ SubSeq(attempts', 1, Len(attempts)) = attempts
            /\ attempts'[Len(attempts')].result = "success"
            /\ last'.res.valid
            /\ ~last'.res.inGracePeriod]_vars

\* C10 happens: the authority confirmed a license that was in grace period.
C10_Witness ==
    /\ last.op = "validate"
    /\ last.r = "valid"
    /\ last.key \in DOMAIN cache
    /\ cache[last.key].grace_period_started_at # NoTime
    /\ cache[last.key].grace_period_expires_at > now
    /\ ~cache[last.key].in_grace_period
    /\ cache[last.key].last_validated_at = now

\* The fields of a cached row that carry the grace-period state machine.
GraceState(row) ==
    <<row.is_valid, row.in_grace_period,
      row.grace_period_started_at, row.grace_period_expires_at>>

\* C11: no SendHeartbeat call raises to its caller, and none, failed or
\* not, changes is_valid, in_grace_period or the grace timestamps of any
\* cached license; a failed one leaves the whole table as it was.
C11_HeartbeatNeverDrivesGrace ==
    [][last'.op = "heartbeat" =>
        /\ ~last'.res.raised
        /\ DOMAIN cache' = DOMAIN cache
        /\ \A k \in DOMAIN cache : GraceState(cache'[k]) = GraceState(cache[k])
        /\ (last'.r = "unreachable" => cache' = cache)]_vars

\* C11 happens: a heartbeat failed while the license was in its grace window.
C11_Witness ==
    /\ last.op = "heartbeat"
    /\ last.r = "unreachable"
    /\ cache[last.key].in_grace_period
    /\ cache[last.key].grace_period_expires_at > now

\* C12: at most one heartbeat timer runs in the process, whatever requests
\* were served, and only a successful Activate ever arms one.
C12_SingleHeartbeatTimer ==
    [][/\ schedulers' <= 1
       /\ (~(last'.op = "activate" /\ last'.res.success)
              => schedulers' = schedulers)]_vars

C14_CoreFeaturesAlwaysAvailable ==
    ALLOW_UNLICENSED_CORE_FEATURES =>
        \A feature_key \in core_features : IsFeatureAvailable(flags, feature_key)

\* C15: while no license is cached, Validate answers valid false with
\* reason no_license, GetStatus answers status no_license, SendHeartbeat
\* returns, and none of the three sends a request to the authority, appends
\* an attempt or changes any table, timer or clock.
C15_NoLicenseIsNoOp ==
    [][(DOMAIN cache = {} /\ last'.op \in {"validate", "status", "heartbeat"}) =>
        /\ last'.r = ""
        /\ UNCHANGED <<now, cache, flags, attempts, schedulers>>
        /\ (last'.op = "validate" =>
               ~last'.res.valid /\ last'.res.reason = "no_license")
        /\ (last'.op = "status" =>
               ~last'.res.hasLicense /\ last'.res.status = "no_license")]_vars

\* C15 happens: Validate ran with no license after an activation had failed.
C15_Witness ==
    /\ last.op = "validate"
    /\ last.res.reason = "no_license"
    /\ DOMAIN cache = {}
    /\ Len(attempts) > 0

\* C16: the attempt log only grows at its end, and every Activate call and
\* every Validate call made with a cached license appends exactly one attempt,
\* whatever the authority answered.
C16_AttemptLogComplete ==
    [][/\ Len(attempts') >= Len(attempts)
       /\ SubSeq(attempts', 1, Len(attempts)) = attempts
       /\ (last'.op = "activate" => Len(attempts') = Len(attempts) + 1)
       /\ ((last'.op = "validate" /\ DOMAIN cache # {})
              => Len(attempts') = Len(attempts) + 1)]_vars

\* C18: after a successful Activate, from whatever lifecycle state, the
\* cached record of the key has in_grace_period = false, so that the next
\* failing check past the new ceiling opens a fresh grace window.
C18_ActivateRestartsAtActive ==
    [][(last'.op = "activate" /\ last'.res.success) =>
        /\ last'.key \in DOMAIN cache'
        /\ ~cache'[last'.key].in_grace_period]_vars

\* C19: a Validate call with a cached license that does not succeed appends
\* one attempt, whose result is offline exactly when the authority could not
\* be reached (transport error, timeout) and failed when it answered invalid,
\* rejected the request or another exception occurred; the call then answers
\* by the grace-period policy.
C19_OfflineVersusFailed ==
    [][(last'.op = "validate" /\ last'.r \notin {"", "valid"}) =>
        /\ Len(attempts') = Len(attempts) + 1
        /\ attempts'[Len(attempts')].result =
              (IF last'.r = "http_error" THEN "offline" ELSE "failed")
        /\ last'.res = CheckGracePeriod(cache[last'.key], now).res
        /\ cache'[last'.key] = CheckGracePeriod(cache[last'.key], now).row]_vars

\* The feature keys a reader of local_feature_flags finds licensed.
Licensed(f) == {feature_key \in DOMAIN f : f[feature_key].licensed}

\* C17: while an Activate that succeeds is under way, the tables show either
\* the license and the flags as they were before it or the flags as they
\* are after it: never the new license with the old flags, never all flags
\* unlicensed in between.
C17_ReadersSeePreOrPost ==
    LET a == inflight["a"] IN
    (a.pc # "idle" /\ a.r.sync = "ok") =>
        \/ (cache = a.cache_before /\ flags = a.flags_before)
        \/ /\ DOMAIN flags = DOMAIN a.flags_before \cup a.r.enabledFeatures
           /\ Licensed(flags) = a.r.enabledFeatures

\* C20: when a Validate that fails comes to its grace-period check after
\* another one, under way at the same time, has started the grace clock on
\* the record both had read past its valid_until with in_grace_period =
\* false, it leaves the grace timestamps as the other wrote them and reports
\* that same expiry.
C20_GraceClockStartedOnce ==
    [][\A q \in Validations :
        (/\ inflight[q].pc = "posted"
         /\ inflight'[q].pc = "idle"
         /\ last'.r # "valid"
         /\ ~inflight[q].loaded.in_grace_period
         /\ inflight[q].loaded.valid_until <= now
         /\ cache[inflight[q].key].valid_until <= now
         /\ cache[inflight[q].key].in_grace_period
         /\ cache[inflight[q].key].grace_period_expires_at > now)
        => /\ cache'[inflight[q].key].grace_period_started_at
                = cache[inflight[q].key].grace_period_started_at
           /\ cache'[inflight[q].key].grace_period_expires_at
                = cache[inflight[q].key].grace_period_expires_at
           /\ last'.res.valid
           /\ last'.res.gracePeriodExpires
                = cache[inflight[q].key].grace_period_expires_at]_vars

\* C21: a SendHeartbeat with a cached license sets last_validated_at to the
\* time of the call when the authority acknowledged the heartbeat and leaves
\* it as it was when the authority answered with an error or could not be
\* reached; no other field of any cached license changes.
C21_HeartbeatStampsOnlyOnAck ==
    [][(last'.op = "heartbeat" /\ last'.r # "") =>
        /\ DOMAIN cache' = DOMAIN cache
        /\ \A k \in DOMAIN cache :
              cache'[k] = [cache[k] EXCEPT !.last_validated_at =
                              cache'[k].last_validated_at]
        /\ cache'[last'.key].last_validated_at =
              (IF last'.r = "ack" THEN now
               ELSE cache[last'.key].last_validated_at)
        /\ \A k \in DOMAIN cache \ {last'.key} : cache'[k] = cache[k]]_vars

\* C22: in every reachable state a cached license with in_grace_period =
\* true has grace_period_started_at and grace_period_expires_at set, the
\* expiry later than the start.
C22_GraceWindowWellFormed ==
    \A k \in DOMAIN cache :
        cache[k].in_grace_period =>
            /\ cache[k].grace_period_started_at # NoTime
            /\ cache[k].grace_period_expires_at # NoTime
            /\ cache[k].grace_period_expires_at > cache[k].grace_period_started_at

\* C22 happens: a grace window was opened, closed by a valid answer and
\* opened again later.
C22_Witness ==
    \E k \in DOMAIN cache :
        /\ cache[k].in_grace_period
        /\ cache[k].last_validated_at # NoTime
        /\ cache[k].grace_period_started_at > cache[k].last_validated_at

\* C23: valid_until of a cached license is written only by an Activate
\* that succeeds: no Validate, GetStatus, SendHeartbeat or feature check, and
\* no other call, creates a record or changes its valid_until.
C23_OnlyActivateWritesValidUntil ==
    [][(\E k \in DOMAIN cache' :
            k \notin DOMAIN cache \/ cache'[k].valid_until # cache[k].valid_until)
        => (last'.op = "activate" /\ last'.res.success)]_vars

\* From some point on no activation occurs and no validation is answered
\* valid.
OfflineStep ==
    /\ last'.op # "activate"
    /\ ~(last'.op = "validate" /\ last'.r = "valid")

\* validate_license has just returned grace_period_expired.
ExpiredReturned ==
    /\ last.op = "validate"
    /\ last.res.reason = "grace_period_expired"

\* C24: when a license is cached and from some point on no Activate occurs
\* and every validation fails, while time keeps advancing and Validate keeps
\* being invoked, then eventually a Validate returns grace_period_expired and
\* from some point on every Validate returns it.
C24_OfflineOperationIsBounded ==
    (<>(DOMAIN cache # {}) /\ <>[][OfflineStep]_vars)
        => /\ <>ExpiredReturned
           /\ <>[][last'.op = "validate" => last'.res.reason = "grace_period_expired"]_vars

\* C24 happens: a license that was validated online went offline, used up
\* its trusted window and its grace window, and was refused.
C24_Witness ==
    /\ ExpiredReturned
    /\ cache[last.key].last_validated_at # NoTime
    /\ cache[last.key].grace_period_started_at > cache[last.key].last_validated_at

====
